---- MODULE Spec2Model ----
(***************************************************************************)
(* A model of smart-crawler's declarative extraction engine                *)
(* (src/src/scraper.py), of the batch loop of src/src/main.py and of the   *)
(* URL list of src/src/url_reader.py.                                      *)
(*                                                                         *)
(* Python strings that the program computes with (element text, attribute  *)
(* values, URLs, field values) are sequences of one-character strings, so  *)
(* that strip(), split(), join() and urljoin() are computed, not assumed.  *)
(* Names that the program only compares (tags, class names, attribute      *)
(* names, dictionary keys, extract modes) are TLA+ strings.                *)
(***************************************************************************)
EXTENDS Integers, Sequences, FiniteSets, TLC

(* ------------------------------------------------------------------ *)
(* Bounds of the model                                                *)
(* ------------------------------------------------------------------ *)
MaxClock == 2

MaxUrls == 3

(* ------------------------------------------------------------------ *)
(* Python string primitives                                           *)
(* ------------------------------------------------------------------ *)

\* The sentinel "N/A" of scraper.py.
NA == <<"N", "/", "A">>

Whitespace == {" ", "\n", "\t"}

RECURSIVE lstrip(_)
lstrip(s) ==
    IF s # <<>> /\ Head(s) \in Whitespace THEN lstrip(Tail(s)) ELSE s

RECURSIVE rstrip(_)
rstrip(s) ==
    IF s # <<>> /\ s[Len(s)] \in Whitespace
    THEN rstrip(SubSeq(s, 1, Len(s) - 1))
    ELSE s

\* str.strip()
strip(s) == rstrip(lstrip(s))

\* str.find(c) for a one-character c, as a 1-based position; 0 when absent.
RECURSIVE find_from(_, _, _)
find_from(s, c, i) ==
    IF i > Len(s) THEN 0
    ELSE IF s[i] = c THEN i
    ELSE find_from(s, c, i + 1)

find_char(s, c) == find_from(s, c, 1)

\* str.split("/")
RECURSIVE split_slash(_)
split_slash(s) ==
    LET i == find_char(s, "/")
    IN  IF i = 0 THEN <<s>>
        ELSE <<SubSeq(s, 1, i - 1)>> \o split_slash(SubSeq(s, i + 1, Len(s)))

\* "/".join(parts)
RECURSIVE join_slash(_)
join_slash(parts) ==
    IF parts = <<>> THEN <<>>
    ELSE IF Len(parts) = 1 THEN parts[1]
    ELSE parts[1] \o <<"/">> \o join_slash(Tail(parts))

UpperLetters == {"H", "T", "P", "S"}

LowerLetters ==
    {"a", "b", "c", "d", "e", "f", "g", "h", "i", "j", "k", "l", "m",
     "n", "o", "p", "q", "r", "s", "t", "u", "v", "w", "x", "y", "z"}

Digits == {"0", "1", "2", "3", "4", "5", "6", "7", "8", "9"}

\* str.lower() on one character.
lower_char(c) ==
    CASE c = "H" -> "h"
      [] c = "T" -> "t"
      [] c = "P" -> "p"
      [] c = "S" -> "s"
      [] OTHER -> c

lower(s) == [i \in 1..Len(s) |-> lower_char(s[i])]

(* ------------------------------------------------------------------ *)
(* urllib.parse, as far as urljoin uses it (no params, query or       *)
(* fragment: the modelled references hold none of ";", "?", "#")      *)
(* ------------------------------------------------------------------ *)
Http == <<"h", "t", "t", "p">>

Https == <<"h", "t", "t", "p", "s">>

\* urllib.parse.uses_relative and uses_netloc, restricted to the schemes
\* the model's URLs can carry ("" is in both lists).
uses_relative == {Http, Https, <<>>}

uses_netloc == {Http, Https, <<>>}

scheme_chars == LowerLetters \cup UpperLetters \cup Digits \cup {"+", "-", "."}

\* _splitnetloc: rest is what follows "//"; slash is the place of its first "/".
split_netloc(scheme, rest, slash) ==
    IF slash = 0
    THEN [scheme |-> scheme, netloc |-> rest, path |-> <<>>]
    ELSE [scheme |-> scheme,
          netloc |-> SubSeq(rest, 1, slash - 1),
          path   |-> SubSeq(rest, slash, Len(rest))]

\* url[:2] == "//"
starts_with_slashes(url) == Len(url) >= 2 /\ url[1] = "/" /\ url[2] = "/"

\* The part of urlsplit after the scheme is taken off.
split_after_scheme(scheme, url) ==
    IF starts_with_slashes(url)
    THEN split_netloc(scheme, SubSeq(url, 3, Len(url)),
                      find_char(SubSeq(url, 3, Len(url)), "/"))
    ELSE [scheme |-> scheme, netloc |-> <<>>, path |-> url]

\* Whether url[:colon] is a scheme: colon is the place of the first ":".
has_scheme(url, colon) ==
    /\ colon > 1
    /\ url[1] \in LowerLetters \cup UpperLetters
    /\ \A k \in 1..(colon - 1) : url[k] \in scheme_chars

split_at_colon(url, default_scheme, colon) ==
    IF has_scheme(url, colon)
    THEN split_after_scheme(lower(SubSeq(url, 1, colon - 1)),
                            SubSeq(url, colon + 1, Len(url)))
    ELSE split_after_scheme(default_scheme, url)

\* urlsplit(url, scheme): [scheme, netloc, path]
urlsplit(url, default_scheme) ==
    split_at_colon(url, default_scheme, find_char(url, ":"))

\* if url and url[:1] != "/": url = "/" + url
rooted(path) == IF path # <<>> /\ path[1] # "/" THEN <<"/">> \o path ELSE path

with_scheme(scheme, url) == IF scheme # <<>> THEN scheme \o <<":">> \o url ELSE url

\* urlunsplit((scheme, netloc, path, "", ""))
urlunsplit(scheme, netloc, path) ==
    IF netloc # <<>>
       \/ (scheme # <<>> /\ scheme \in uses_netloc /\ ~starts_with_slashes(path))
    THEN with_scheme(scheme, <<"/", "/">> \o netloc \o rooted(path))
    ELSE with_scheme(scheme, path)

\* The dot-segment loop of urljoin.
RECURSIVE resolve_segments(_, _)
resolve_segments(segments, resolved) ==
    IF segments = <<>> THEN resolved
    ELSE IF Head(segments) = <<".", ".">>
    THEN resolve_segments(Tail(segments),
             IF resolved = <<>> THEN <<>>
             ELSE SubSeq(resolved, 1, Len(resolved) - 1))
    ELSE IF Head(segments) = <<".">>
    THEN resolve_segments(Tail(segments), resolved)
    ELSE resolve_segments(Tail(segments), Append(resolved, Head(segments)))

\* segments[1:-1] = filter(None, segments[1:-1])
filter_middle(segments) ==
    IF Len(segments) <= 2 THEN segments
    ELSE <<segments[1]>>
         \o SelectSeq(SubSeq(segments, 2, Len(segments) - 1), LAMBDA x : x # <<>>)
         \o <<segments[Len(segments)]>>

\* base_parts = bpath.split("/"); if base_parts[-1] != "": del base_parts[-1]
drop_last_unless_empty(parts) ==
    IF parts[Len(parts)] # <<>> THEN SubSeq(parts, 1, Len(parts) - 1) ELSE parts

\* if segments[-1] in (".", ".."): resolved_path.append("")
close_dot(last, resolved) ==
    IF last = <<".">> \/ last = <<".", ".">> THEN Append(resolved, <<>>) ELSE resolved

\* "/".join(resolved_path) or "/"
or_slash(path) == IF path = <<>> THEN <<"/">> ELSE path

resolved_path(segments) ==
    or_slash(join_slash(close_dot(segments[Len(segments)],
                                  resolve_segments(segments, <<>>))))

\* The segments that urljoin resolves: the reference's own for a rooted path,
\* else those of the base's directory followed by the reference's.
join_segments(bpath, path) ==
    IF path[1] = "/" THEN split_slash(path)
    ELSE filter_middle(drop_last_unless_empty(split_slash(bpath)) \o split_slash(path))

\* urljoin once base and url are split: b and u are their parts.
join_parts(url, b, u) ==
    IF u.scheme # b.scheme \/ u.scheme \notin uses_relative THEN url
    ELSE IF u.scheme \in uses_netloc /\ u.netloc # <<>>
    THEN urlunsplit(u.scheme, u.netloc, u.path)
    ELSE IF u.path = <<>>
    THEN urlunsplit(u.scheme, IF u.scheme \in uses_netloc THEN b.netloc ELSE u.netloc,
                    b.path)
    ELSE urlunsplit(u.scheme, IF u.scheme \in uses_netloc THEN b.netloc ELSE u.netloc,
                    resolved_path(join_segments(b.path, u.path)))

\* urllib.parse.urljoin(base, url)
urljoin(base, url) ==
    IF base = <<>> THEN url
    ELSE IF url = <<>> THEN base
    ELSE join_parts(url, urlsplit(base, <<>>),
                    urlsplit(url, urlsplit(base, <<>>).scheme))

(* ------------------------------------------------------------------ *)
(* Python dictionaries: a dict is a function on its keys              *)
(* ------------------------------------------------------------------ *)
EmptyDict == [k \in {} |-> 0]

\* dict.get(key, default)
dict_get(d, key, default) == IF key \in DOMAIN d THEN d[key] ELSE default

\* A JSON value that is not an object where the code expects one (a string,
\* a number, a list): calling .get on it raises AttributeError.
NotADict == [malformed |-> TRUE]

is_dict(x) == "malformed" \notin DOMAIN x

(* ------------------------------------------------------------------ *)
(* The Document Model: a parsed HTML tree (BeautifulSoup)             *)
(*                                                                    *)
(* A document is a record of sequences indexed by node; nodes are     *)
(* numbered in document order (pre-order), parent[i] < i, parent 0 is *)
(* the soup itself. classes[i] = {} is an element without a class     *)
(* attribute. text[i] is the string directly inside element i, placed *)
(* before its child elements.                                         *)
(* ------------------------------------------------------------------ *)
None == 0

AttrNames == {"href", "data-id"}

Absent == [present |-> FALSE, value |-> <<>>]

Attr(v) == [present |-> TRUE, value |-> v]

NoAttrs == [a \in AttrNames |-> Absent]

\* <div class="card"><h3>A</h3><a href="/p/1"></a></div><div class="card"></div>
DocExample ==
    [ n       |-> 4,
      parent  |-> <<0, 1, 1, 0>>,
      tag     |-> <<"div", "h3", "a", "div">>,
      classes |-> <<{"card"}, {}, {}, {"card"}>>,
      attrs   |-> <<NoAttrs, NoAttrs,
                    [NoAttrs EXCEPT !["href"] = Attr(<<"/", "p", "/", "1">>)],
                    NoAttrs>>,
      text    |-> <<<<>>, <<"A">>, <<>>, <<>>>> ]

\* <div class="other"><p>x</p><span></span></div>
DocNoContainer ==
    [ n       |-> 3,
      parent  |-> <<0, 1, 1>>,
      tag     |-> <<"div", "p", "span">>,
      classes |-> <<{"other"}, {}, {}>>,
      attrs   |-> <<NoAttrs, NoAttrs, NoAttrs>>,
      text    |-> <<<<>>, <<"x">>, <<>>>> ]

\* <div class="card" data-id="7"> T <span class="price"> 1 <span>2</span></span>
\*   <a href=""></a></div>
\* <div class="card big"><a href="item/42" data-id=""></a><span>N/A</span></div>
\* <div><h3>B</h3><a href="HTTP://c/x"></a></div>
\* <div class="card"></div>
DocMixed ==
    [ n       |-> 11,
      parent  |-> <<0, 1, 2, 1, 0, 5, 5, 0, 8, 8, 0>>,
      tag     |-> <<"div", "span", "span", "a", "div", "a", "span", "div", "h3", "a",
                    "div">>,
      classes |-> <<{"card"}, {"price"}, {}, {}, {"card", "big"}, {}, {}, {}, {}, {},
                    {"card"}>>,
      attrs   |-> <<[NoAttrs EXCEPT !["data-id"] = Attr(<<"7">>)],
                    NoAttrs, NoAttrs,
                    [NoAttrs EXCEPT !["href"] = Attr(<<>>)],
                    NoAttrs,
                    [NoAttrs EXCEPT !["href"] = Attr(<<"i", "t", "e", "m", "/", "4", "2">>),
                                    !["data-id"] = Attr(<<>>)],
                    NoAttrs, NoAttrs, NoAttrs,
                    [NoAttrs EXCEPT !["href"] =
                        Attr(<<"H", "T", "T", "P", ":", "/", "/", "c", "/", "x">>)],
                    NoAttrs>>,
      text    |-> <<<<" ", "T", " ">>, <<" ", "1", " ">>, <<"2">>, <<>>, <<>>,
                    <<>>, <<"N", "/", "A">>, <<>>, <<"B">>, <<>>, <<>>>> ]

\* <div class="card"><a href="https://cdn/x"></a><a href="//cdn/x"></a></div>
\* <div class="card"><a href="../x"></a><a></a></div>
DocLinks ==
    [ n       |-> 6,
      parent  |-> <<0, 1, 1, 0, 4, 4>>,
      tag     |-> <<"div", "a", "a", "div", "a", "a">>,
      classes |-> <<{"card"}, {}, {}, {"card"}, {}, {}>>,
      attrs   |-> <<NoAttrs,
                    [NoAttrs EXCEPT !["href"] =
                        Attr(<<"h", "t", "t", "p", "s", ":", "/", "/", "c", "d", "n",
                               "/", "x">>)],
                    [NoAttrs EXCEPT !["href"] = Attr(<<"/", "/", "c", "d", "n", "/", "x">>)],
                    NoAttrs,
                    [NoAttrs EXCEPT !["href"] = Attr(<<".", ".", "/", "x">>)],
                    NoAttrs>>,
      text    |-> <<<<>>, <<>>, <<>>, <<>>, <<>>, <<>>>> ]

Docs == <<DocExample, DocNoContainer, DocMixed, DocLinks>>

DocIds == 1..Len(Docs)

Nodes(d) == 1..d.n

\* Whether j is a descendant of e (e = 0 is the soup: every node descends from it).
RECURSIVE is_descendant(_, _, _)
is_descendant(d, j, e) ==
    IF j = 0 THEN FALSE
    ELSE IF d.parent[j] = e THEN TRUE
    ELSE is_descendant(d, d.parent[j], e)

\* How bs4 matches the class_ filter: a non-empty name matches an element that
\* carries that class; an empty (or None) filter value matches an element that
\* has no class attribute.
class_matches(d, j, class_name) ==
    IF class_name = "" THEN d.classes[j] = {} ELSE class_name \in d.classes[j]

\* A step without "tag" passes None to bs4, which then matches any tag.
NoTag == ""

tag_matches(d, j, tag) == tag = NoTag \/ d.tag[j] = tag

\* The nodes of a set in document order.
RECURSIVE in_order(_)
in_order(S) ==
    IF S = {} THEN <<>>
    ELSE LET m == CHOOSE x \in S : \A y \in S : x <= y
         IN  <<m>> \o in_order(S \ {m})

\* element.find_all(tag, class_=class_name)
find_all_class(d, e, tag, class_name) ==
    in_order({j \in Nodes(d) :
                 /\ is_descendant(d, j, e)
                 /\ tag_matches(d, j, tag)
                 /\ class_matches(d, j, class_name)})

\* element.find_all(tag)
find_all_tag(d, e, tag) ==
    in_order({j \in Nodes(d) : is_descendant(d, j, e) /\ tag_matches(d, j, tag)})

\* element.find(...): the first match, or None
first_or_none(elements) == IF elements = <<>> THEN None ELSE elements[1]

\* element.get(name)
element_get(d, e, name) ==
    IF name \in AttrNames THEN d.attrs[e][name] ELSE Absent

\* element.get_text(strip=True): every string of the element in document
\* order, each stripped, the empty ones dropped, joined with "".
RECURSIVE concat_stripped(_, _)
concat_stripped(d, nodes) ==
    IF nodes = <<>> THEN <<>>
    ELSE strip(d.text[Head(nodes)]) \o concat_stripped(d, Tail(nodes))

get_text(d, e) ==
    concat_stripped(d, in_order({e} \cup {j \in Nodes(d) : is_descendant(d, j, e)}))

(* ------------------------------------------------------------------ *)
(* WebScraper._extract_field_value                                    *)
(* ------------------------------------------------------------------ *)

\* index_elements with the length test written len(elements) >= index.
index_elements_inclusive(elements, index) ==
    IF elements = <<>> \/ ~(Len(elements) >= index)
    THEN [raised |-> FALSE, element |-> None]
    ELSE IF index >= 0 /\ index < Len(elements)
    THEN [raised |-> FALSE, element |-> elements[index + 1]]
    ELSE IF index < 0 /\ -index <= Len(elements)
    THEN [raised |-> FALSE, element |-> elements[Len(elements) + index + 1]]
    ELSE [raised |-> TRUE, element |-> None]

\* elements[index] if elements and len(elements) > index else None
\* A negative index passes the length test; Python then counts from the end
\* and raises IndexError when -index exceeds the length.
index_elements(elements, index) ==
    IF elements = <<>> \/ ~(Len(elements) > index)
    THEN [raised |-> FALSE, element |-> None]
    ELSE IF index >= 0
    THEN [raised |-> FALSE, element |-> elements[index + 1]]
    ELSE IF -index <= Len(elements)
    THEN [raised |-> FALSE, element |-> elements[Len(elements) + index + 1]]
    ELSE [raised |-> TRUE, element |-> None]

\* element.find_all(tag, class_=class_name) if class_name else element.find_all(tag)
step_matches(d, element, tag, class_name) ==
    IF class_name # ""
    THEN find_all_class(d, element, tag, class_name)
    ELSE find_all_tag(d, element, tag)

\* apply_step with a final else branch that sets element = None.
apply_step_else_none(d, element, step) ==
    IF ~is_dict(step) THEN [raised |-> TRUE, element |-> None]
    ELSE IF dict_get(step, "type", "") = "find"
    THEN [raised  |-> FALSE,
          element |-> first_or_none(step_matches(d, element,
                          dict_get(step, "tag", NoTag), dict_get(step, "class", "")))]
    ELSE IF dict_get(step, "type", "") = "find_all"
    THEN index_elements(step_matches(d, element,
                            dict_get(step, "tag", NoTag), dict_get(step, "class", "")),
                        dict_get(step, "index", 0))
    ELSE [raised |-> FALSE, element |-> None]

\* One iteration of the loop over field_config["path"]: the new current
\* element, or an exception. A step that is not an object raises at step.get;
\* a type other than find and find_all leaves the element as it is.
apply_step(d, element, step) ==
    IF ~is_dict(step) THEN [raised |-> TRUE, element |-> None]
    ELSE IF dict_get(step, "type", "") = "find"
    THEN [raised  |-> FALSE,
          element |-> first_or_none(step_matches(d, element,
                          dict_get(step, "tag", NoTag), dict_get(step, "class", "")))]
    ELSE IF dict_get(step, "type", "") = "find_all"
    THEN index_elements(step_matches(d, element,
                            dict_get(step, "tag", NoTag), dict_get(step, "class", "")),
                        dict_get(step, "index", 0))
    ELSE [raised |-> FALSE, element |-> element]

\* walk_path without the break: the next step calls step.get and then
\* element.find on None, which raises AttributeError.
RECURSIVE walk_path_no_break(_, _, _, _)
walk_path_no_break(d, r, steps, i) ==
    IF r.raised \/ i > Len(steps) THEN r
    ELSE IF r.element = None THEN [raised |-> TRUE, element |-> None]
    ELSE walk_path_no_break(d, apply_step(d, r.element, steps[i]), steps, i + 1)

\* The loop over the path, from step number i on: it stops at the first None
\* element (if not element: break) and at the first exception.
RECURSIVE walk_path(_, _, _, _)
walk_path(d, r, steps, i) ==
    IF r.raised \/ i > Len(steps) \/ r.element = None THEN r
    ELSE walk_path(d, apply_step(d, r.element, steps[i]), steps, i + 1)

\* value_or_na that tests the attribute for presence (is not None) only.
value_if_present(attr_value) ==
    IF attr_value.present THEN attr_value.value ELSE NA

\* return attr_value if attr_value else "N/A"
value_or_na(attr_value) ==
    IF attr_value.present /\ attr_value.value # <<>> THEN attr_value.value ELSE NA

\* href_or_na without urljoin: the attribute as it is written.
href_raw(relative_link, base_url) ==
    IF relative_link.present /\ relative_link.value # <<>>
    THEN relative_link.value
    ELSE NA

\* if relative_link: return urljoin(base_url, relative_link) else: return "N/A"
href_or_na(relative_link, base_url) ==
    IF relative_link.present /\ relative_link.value # <<>>
    THEN urljoin(base_url, relative_link.value)
    ELSE NA

\* The value taken from the terminal element under the extract mode.
extract_from_element(d, element, extract_type, base_url) ==
    IF extract_type = "text" THEN get_text(d, element)
    ELSE IF extract_type = "href"
    THEN href_or_na(element_get(d, element, "href"), base_url)
    ELSE value_or_na(element_get(d, element, extract_type))

\* The part of _extract_field_value after the loop: r is what the loop left.
value_of_terminal(d, r, extract_type, base_url) ==
    IF r.raised THEN [raised |-> TRUE, value |-> <<>>]
    ELSE IF r.element = None THEN [raised |-> FALSE, value |-> NA]
    ELSE [raised |-> FALSE,
          value  |-> extract_from_element(d, r.element, extract_type, base_url)]

\* extract_field_value that gives "N/A" for a field without steps.
extract_field_value_needs_path(d, container, field_config, base_url) ==
    IF ~is_dict(field_config) THEN [raised |-> TRUE, value |-> <<>>]
    ELSE IF dict_get(field_config, "path", <<>>) = <<>>
    THEN [raised |-> FALSE, value |-> NA]
    ELSE value_of_terminal(d,
             walk_path(d, [raised |-> FALSE, element |-> container],
                       dict_get(field_config, "path", <<>>), 1),
             dict_get(field_config, "extract", "text"), base_url)

\* _extract_field_value(container, field_config, base_url):
\* [raised, value]; raised is an exception leaving the method.
extract_field_value(d, container, field_config, base_url) ==
    IF ~is_dict(field_config) THEN [raised |-> TRUE, value |-> <<>>]
    ELSE value_of_terminal(d,
             walk_path(d, [raised |-> FALSE, element |-> container],
                       dict_get(field_config, "path", <<>>), 1),
             dict_get(field_config, "extract", "text"), base_url)

(* ------------------------------------------------------------------ *)
(* WebScraper._extract_products                                       *)
(* ------------------------------------------------------------------ *)

\* try_field without the except branch: the exception leaves the loop.
try_field_uncaught(r) ==
    IF r.raised
    THEN [value |-> NA, warned |-> FALSE, escaped |-> TRUE]
    ELSE [value |-> r.value, warned |-> FALSE, escaped |-> FALSE]

\* The try/except around one field of one container, given the outcome r of
\* _extract_field_value: the value stored under field_name, whether the
\* warning of the except branch is printed, and whether the exception leaves
\* the loop (it never does: except Exception).
try_field(r) ==
    IF r.raised
    THEN [value |-> NA, warned |-> TRUE, escaped |-> FALSE]
    ELSE [value |-> r.value, warned |-> FALSE, escaped |-> FALSE]

\* keep_product with all(...) in place of any(...).
keep_product_all(product) == \A field_name \in DOMAIN product : product[field_name] # NA

\* if any(value != "N/A" for value in product.values())
keep_product(product) == \E field_name \in DOMAIN product : product[field_name] # NA

\* soup.find_all("div", class_=container_class)
find_containers(d, container_class) ==
    find_all_class(d, 0, "div", container_class)

\* scan_entry with an except branch that stores nothing under field_name.
scan_entry_skip(container, tried) ==
    [container |-> container,
     product   |-> [f \in {g \in DOMAIN tried : ~tried[g].warned} |-> tried[f].value],
     kept      |-> keep_product(
                      [f \in {g \in DOMAIN tried : ~tried[g].warned} |-> tried[f].value]),
     warned    |-> {f \in DOMAIN tried : tried[f].warned},
     escaped   |-> \E f \in DOMAIN tried : tried[f].escaped]

\* One iteration of the loop over the containers, given what the inner loop
\* got for every field: the local variable product, whether it is appended,
\* the fields whose warning is printed, whether an exception leaves the loop.
scan_entry(container, tried) ==
    [container |-> container,
     product   |-> [f \in DOMAIN tried |-> tried[f].value],
     kept      |-> keep_product([f \in DOMAIN tried |-> tried[f].value]),
     warned    |-> {f \in DOMAIN tried : tried[f].warned},
     escaped   |-> \E f \in DOMAIN tried : tried[f].escaped]

\* The inner loop over self.config["fields"].items() for one container.
scan_container(d, container, fields, base_url) ==
    scan_entry(container,
               [f \in DOMAIN fields |->
                   try_field(extract_field_value(d, container, fields[f], base_url))])

\* The loop over the containers; an exception that escapes ends it.
RECURSIVE scan_containers(_, _, _, _, _)
scan_containers(d, containers, fields, base_url, scanned) ==
    IF containers = <<>> THEN [raised |-> FALSE, scanned |-> scanned]
    ELSE IF scanned # <<>> /\ scanned[Len(scanned)].escaped
    THEN [raised |-> TRUE, scanned |-> scanned]
    ELSE scan_containers(d, Tail(containers), fields, base_url,
             Append(scanned, scan_container(d, Head(containers), fields, base_url)))

RECURSIVE kept_products(_)
kept_products(scanned) ==
    IF scanned = <<>> THEN <<>>
    ELSE (IF Head(scanned).kept THEN <<Head(scanned).product>> ELSE <<>>)
         \o kept_products(Tail(scanned))

\* A page without container treated as an error.
no_containers_raise == [raised |-> TRUE, scanned |-> <<>>, products |-> <<>>]

\* The early return of an empty list when no container is found.
no_containers_result == [raised |-> FALSE, scanned |-> <<>>, products |-> <<>>]

\* The result of the loop over the containers, r, as the method returns it.
products_of_scan(r) ==
    IF r.raised \/ (r.scanned # <<>> /\ r.scanned[Len(r.scanned)].escaped)
    THEN [raised |-> TRUE, scanned |-> r.scanned, products |-> <<>>]
    ELSE [raised |-> FALSE, scanned |-> r.scanned, products |-> kept_products(r.scanned)]

\* The method once the containers are found.
extract_from_containers(d, containers, config, base_url) ==
    IF containers = <<>> THEN no_containers_result
    \* self.config["fields"].items(): KeyError without the key,
    \* AttributeError when the value is not an object
    ELSE IF "fields" \notin DOMAIN config \/ ~is_dict(config["fields"])
    THEN [raised |-> TRUE, scanned |-> <<>>, products |-> <<>>]
    ELSE products_of_scan(
             scan_containers(d, containers, config["fields"], base_url, <<>>))

\* _extract_products(soup, base_url): scanned records what each loop
\* iteration built, products is the returned list.
extract_products(d, config, base_url) ==
    extract_from_containers(d,
        find_containers(d, dict_get(config, "container_class", "")), config, base_url)

(* ------------------------------------------------------------------ *)
(* Configurations                                                     *)
(* ------------------------------------------------------------------ *)
FindH3 == [type |-> "find", tag |-> "h3"]

FindA == [type |-> "find", tag |-> "a"]

TitleField == [path |-> <<FindH3>>, extract |-> "text"]

LinkField == [path |-> <<FindA>>, extract |-> "href"]

ExampleFields == ("title" :> TitleField) @@ ("link" :> LinkField)

ShopName == <<"s", "h", "o", "p">>

\* The configuration of the specification's end-to-end scenario.
CfgExample == ("container_class" :> "card") @@ ("fields" :> ExampleFields)

CfgNamed == CfgExample @@ ("name" :> ShopName)

CfgNoContainerClass == ("fields" :> ExampleFields) @@ ("name" :> ShopName)

CfgNoFields == ("container_class" :> "card")

CfgNoKeys == [k \in {} |-> ""]

CfgEmptyContainerClass == ("container_class" :> "") @@ ("fields" :> ExampleFields)

CfgEmptyFields == ("container_class" :> "card") @@ ("fields" :> EmptyDict)

\* A field named like a provenance key.
CfgCollide ==
    ("container_class" :> "card")
    @@ ("fields" :> (("_source_url" :> TitleField) @@ ("link" :> LinkField)))

\* Fields that fail: one that is not an object, one whose path holds a step
\* that is not an object, one whose negative index is out of range.
CfgFailing ==
    ("container_class" :> "card")
    @@ ("fields" :>
           (("broken" :> NotADict)
            @@ ("badstep" :> [path |-> <<NotADict>>, extract |-> "text"])
            @@ ("third" :> [path |-> <<[type |-> "find_all", tag |-> "span",
                                       index |-> -3]>>])
            @@ ("price" :> [path |-> <<[type |-> "find", tag |-> "span",
                                       class |-> "price"]>>])
            @@ ("link" :> LinkField)))

\* Fields read from the container itself and from attributes.
CfgAttrs ==
    ("container_class" :> "card")
    @@ ("name" :> <<>>)
    @@ ("fields" :>
           (("id" :> [path |-> <<>>, extract |-> "data-id"])
            @@ ("aid" :> [path |-> <<FindA>>, extract |-> "data-id"])
            @@ ("label" :> [path |-> <<[type |-> "find_all", tag |-> "span",
                                       index |-> 1]>>, extract |-> "text"])))

\* A field without path and without extract: the container's own text.
CfgSelf ==
    ("container_class" :> "card")
    @@ ("fields" :> (("text" :> EmptyDict) @@ ("title" :> TitleField)))

\* "fields" holds a JSON value that is not an object.
CfgFieldsNotDict == ("container_class" :> "card") @@ ("fields" :> NotADict)

Configs ==
    <<CfgExample, CfgNamed, CfgNoContainerClass, CfgNoFields, CfgNoKeys,
      CfgEmptyContainerClass, CfgEmptyFields, CfgCollide, CfgFailing, CfgAttrs,
      CfgSelf, CfgFieldsNotDict>>

ConfigIds == 1..Len(Configs)

(* ------------------------------------------------------------------ *)
(* WebScraper._validate_config and WebScraper.__init__                *)
(* ------------------------------------------------------------------ *)
required_keys == <<"container_class", "fields">>

\* validate_config that looks at the first required key only.
validate_config_first(cfg) ==
    IF required_keys[1] \notin DOMAIN cfg
    THEN [raised |-> TRUE, config |-> EmptyDict]
    ELSE [raised |-> FALSE, config |-> cfg]

\* validate_config that also rejects an empty container_class and an empty
\* fields mapping.
validate_config_nonempty(cfg) ==
    IF \/ \E i \in 1..Len(required_keys) : required_keys[i] \notin DOMAIN cfg
       \/ cfg["container_class"] = ""
       \/ DOMAIN cfg["fields"] = {}
    THEN [raised |-> TRUE, config |-> EmptyDict]
    ELSE [raised |-> FALSE, config |-> cfg]

\* _validate_config(config): ValueError for the first required key that is
\* not in config, else the configuration itself.
validate_config(cfg) ==
    IF \E i \in 1..Len(required_keys) : required_keys[i] \notin DOMAIN cfg
    THEN [raised |-> TRUE, config |-> EmptyDict]
    ELSE [raised |-> FALSE, config |-> cfg]

(* ------------------------------------------------------------------ *)
(* WebScraper.scrape_products                                         *)
(* ------------------------------------------------------------------ *)
UrlShop ==
    <<"h", "t", "t", "p", "s", ":", "/", "/", "s", ".", "e", "/", "c", "a", "t", "/">>

UrlOther == <<"h", "t", "t", "p", ":", "/", "/", "s", "/", "a", "/", "b">>

Urls == <<UrlShop, UrlOther>>

UrlIds == 1..Len(Urls)

\* What session.get / raise_for_status give for a request: an exception of
\* requests (after the retries of the adapter), or a page.
HttpError == [status |-> "error", doc |-> 0]

Page(doc) == [status |-> "ok", doc |-> doc]

Responses == {HttpError} \cup {Page(doc) : doc \in DocIds}

ProvenanceKeys == {"_source_url", "_scraped_at", "_config_used"}

DefaultConfigName ==
    <<"d", "e", "f", "a", "u", "l", "t", "_", "c", "o", "n", "f", "i", "g">>

DigitOf(k) ==
    CASE k = 0 -> "0" [] k = 1 -> "1" [] k = 2 -> "2" [] k = 3 -> "3" [] k = 4 -> "4"
      [] k = 5 -> "5" [] k = 6 -> "6" [] k = 7 -> "7" [] k = 8 -> "8" [] k = 9 -> "9"

\* time.strftime("%Y-%m-%d %H:%M:%S"), of which the model keeps the seconds.
strftime(t) == <<DigitOf((t \div 10) % 6), DigitOf(t % 10)>>

\* add_metadata with config.get("name") or "default_config".
add_metadata_or_default(product, url, now, cfg) ==
    [k \in DOMAIN product \cup ProvenanceKeys |->
        CASE k = "_source_url" -> url
          [] k = "_scraped_at" -> strftime(now)
          [] k = "_config_used" ->
                 IF "name" \in DOMAIN cfg /\ cfg["name"] # <<>>
                 THEN cfg["name"] ELSE DefaultConfigName
          [] OTHER -> product[k]]

\* The three assignments of the metadata loop, on one product.
add_metadata(product, url, now, cfg) ==
    [k \in DOMAIN product \cup ProvenanceKeys |->
        CASE k = "_source_url" -> url
          [] k = "_scraped_at" -> strftime(now)
          [] k = "_config_used" ->
                 IF "name" \in DOMAIN cfg THEN cfg["name"] ELSE DefaultConfigName
          [] OTHER -> product[k]]

\* The metadata loop and the return, given the outcome r of _extract_products;
\* an exception is wrapped by the except branches.
returned_products(r, cfg, url, now) ==
    IF r.raised
    THEN [kind |-> "raised", error |-> "Error general en scraping",
          products |-> <<>>, scanned |-> r.scanned]
    ELSE [kind |-> "returned", error |-> "none",
          products |-> [i \in 1..Len(r.products) |->
                           add_metadata(r.products[i], url, now, cfg)],
          scanned |-> r.scanned]

\* scrape_products(url), given what the request returns and the clock:
\* kind "returned" with the list, or kind "raised" with the wrapped error.
scrape_products(cfg, url, response, now) ==
    IF response.status # "ok"
    THEN [kind |-> "raised", error |-> "Error en request HTTP",
          products |-> <<>>, scanned |-> <<>>]
    ELSE returned_products(extract_products(Docs[response.doc], cfg, url),
                           cfg, url, now)

(* ------------------------------------------------------------------ *)
(* WebScraper.test_config_on_url                                      *)
(* ------------------------------------------------------------------ *)

\* The attributes __init__ sets are config, delay and session; no method
\* assigns self.config_path, so reading it raises AttributeError.
has_config_path == FALSE

\* The values of max_products the method is called with.
MaxProductsValues == {1, 3}

\* products[:max_products]; a negative bound counts from the end.
slice_to(products, max_products) ==
    IF max_products >= Len(products) THEN products
    ELSE IF max_products >= 0 THEN SubSeq(products, 1, max_products)
    ELSE IF Len(products) + max_products > 0
    THEN SubSeq(products, 1, Len(products) + max_products)
    ELSE <<>>

NoResult ==
    [success |-> FALSE, total_products |-> 0, sample_products |-> <<>>,
     error |-> "none"]

\* The except branch with the message of the exception it caught: the
\* dictionary is built from self.config_path.name.
test_failure(message) ==
    IF has_config_path
    THEN [kind |-> "returned", error |-> "none",
          result |-> [NoResult EXCEPT !.error = message]]
    ELSE [kind |-> "raised", error |-> "AttributeError", result |-> NoResult]

\* The return in the try block, for the list scrape_products returned: an
\* exception in building the dictionary is caught by the except branch.
test_success(products, max_products) ==
    IF has_config_path
    THEN [kind |-> "returned", error |-> "none",
          result |-> [success |-> TRUE, total_products |-> Len(products),
                      sample_products |-> slice_to(products, max_products),
                      error |-> "none"]]
    ELSE test_failure("AttributeError")

\* test_config_on_url(url, max_products), given the outcome r of
\* self.scrape_products(url).
test_config_on_url(r, max_products) ==
    IF r.kind = "returned" THEN test_success(r.products, max_products)
    ELSE test_failure(r.error)

(* ------------------------------------------------------------------ *)
(* Inputs of _extract_field_value taken one at a time                 *)
(* ------------------------------------------------------------------ *)
MaxPathLen == 2

PathSteps ==
    << FindH3,
       FindA,
       [type |-> "find", tag |-> "span", class |-> "price"],
       [type |-> "find_all", tag |-> "span"],
       [type |-> "find_all", tag |-> "span", index |-> 1],
       [type |-> "find_all", tag |-> "span", index |-> 2],
       [type |-> "find_all", tag |-> "span", index |-> -1],
       [type |-> "find_all", tag |-> "span", index |-> -3],
       [type |-> "find_all", tag |-> "a", index |-> 1],
       [type |-> "select", tag |-> "span"],
       [tag |-> "a"],
       NotADict,
       [type |-> "find_all", tag |-> "span", class |-> "price", index |-> 0] >>

StepIds == 1..Len(PathSteps)

\* The values of "extract"; mode 0 is a field_config without the key.
ExtractModes == <<"text", "href", "data-id">>

ModeIds == 0..Len(ExtractModes)

\* The elements a path starts from: the div elements of the documents.
StartElements ==
    UNION {{<<doc, e>> : e \in {j \in Nodes(Docs[doc]) : Docs[doc].tag[j] = "div"}} :
              doc \in DocIds}

StepSeqs == UNION {[1..n -> StepIds] : n \in 0..MaxPathLen}

\* The field_config of an input: step numbers, mode number, and whether the
\* "path" key is there at all (it may be left out only when there is no step).
field_config_of(steps, mode, has_path) ==
    (IF has_path THEN ("path" :> [i \in 1..Len(steps) |-> PathSteps[steps[i]]])
     ELSE EmptyDict)
    @@ (IF mode = 0 THEN EmptyDict ELSE ("extract" :> ExtractModes[mode]))

(* ------------------------------------------------------------------ *)
(* main(): the batch loop                                             *)
(* ------------------------------------------------------------------ *)

\* What main finds on disk: the two files, the sections of config_01.json
\* (scraper is a configuration number, 0 when "scraper_settings" is missing),
\* and the list load_urls returns.
UrlLists == UNION {[1..n -> UrlIds] : n \in 0..MaxUrls}

\* The "scraper_settings" sections main is run with.
MainConfigs == <<CfgExample, CfgNoFields, CfgNoKeys, CfgFieldsNotDict>>

Environments ==
    [config_file : BOOLEAN, urls_file : BOOLEAN, scraper : 0..Len(MainConfigs),
     export : BOOLEAN, urls : UrlLists]

\* What the requests of test_config_on_url get: a failed request, the example
\* page, the page with failing and empty containers.
TestResponses == {HttpError, Page(1), Page(3)}

\* The pages the URLs of main serve: the example page, a page without
\* container, or a failed request.
MainResponses == {HttpError, Page(1), Page(2)}

\* The clock readings of one request of main: time stands still or moves on.
MainTimes(t) == {t, IF t < MaxClock THEN t + 1 ELSE t}

\* if not scraper_config or not export_config: an empty dictionary is falsy too
settings_missing(env) ==
    \/ env.scraper = 0
    \/ DOMAIN MainConfigs[env.scraper] = {}
    \/ ~env.export

\* Whether main returns False before the loop starts.
main_stops_early(env) ==
    \/ ~env.config_file
    \/ ~env.urls_file
    \/ settings_missing(env)
    \/ env.urls = <<>>
    \/ validate_config(MainConfigs[env.scraper]).raised

\* The body of the loop after scrape_products gave r: all_products.
extend_products(all, r) ==
    IF r.kind = "returned" /\ r.products # <<>> THEN all \o r.products ELSE all

\* The body of the loop after scrape_products gave r: successful_scrapes.
count_scrape(count, r) ==
    IF r.kind = "returned" /\ r.products # <<>> THEN count + 1 ELSE count

\* The line the loop logs for the outcome r of URL number i.
outcome_entry(i, r) ==
    [level |-> IF r.kind = "raised" THEN "error"
               ELSE IF r.products # <<>> THEN "info" ELSE "warning",
     event |-> "outcome", i |-> i, url |-> 0]

\* after_url with an except branch that ends the loop.
after_url_abort(r) == IF r.kind = "raised" THEN "done" ELSE "loop"

\* Where main goes after one URL: the except branch ends in continue.
after_url(r) == "loop"

(* ------------------------------------------------------------------ *)
(* URLReader                                                          *)
(* ------------------------------------------------------------------ *)
MaxLines == 2

\* The arguments add_url is called with; the first six are also the lines a
\* urls file can hold (without the line end, which strip takes off anyway).
UrlLines ==
    << <<"h", "t", "t", "p", ":", "/", "/", "s", "/", "a">>,
       <<" ", "h", "t", "t", "p", ":", "/", "/", "s", "/", "a", " ">>,
       UrlShop,
       <<"s", "/", "a">>,
       <<"#", "h", "t", "t", "p", ":", "/", "/", "s", "/", "a">>,
       <<" ">>,
       <<"h", "t", "t", "p", ":", "/", "a">>,
       <<"/", "/", "s", "/", "a">>,
       <<"h", "t", "t", "p", ":", "/", "/">> >>

LineIds == 1..Len(UrlLines)

\* The lines files are made of: two valid URLs (one of them also padded with
\* spaces), a line that is no URL, a comment, a blank line.
FileLineIds == 1..6

\* What is at file_path: no file, a file that cannot be read, or lines.
UrlFiles ==
    {[exists |-> FALSE, readable |-> FALSE, lines |-> <<>>],
     [exists |-> TRUE, readable |-> FALSE, lines |-> <<>>]}
    \cup {[exists |-> TRUE, readable |-> TRUE, lines |-> ls] :
              ls \in UNION {[1..n -> FileLineIds] : n \in 0..MaxLines}}

\* urlparse(url): urlsplit takes leading spaces off the URL before it looks
\* for the scheme.
urlparse(url) == urlsplit(lstrip(url), <<>>)

\* all([result.scheme, result.netloc])
is_valid_url(url) == urlparse(url).scheme # <<>> /\ urlparse(url).netloc # <<>>

\* if not line or line.startswith('#'): continue
is_skipped(line) == line = <<>> \/ line[1] = "#"

\* The first loop of load_urls over lines[from..]: (line_num, line) of the
\* lines that are kept, each stripped.
RECURSIVE raw_urls(_, _)
raw_urls(lines, from) ==
    IF from > Len(lines) THEN <<>>
    ELSE (IF is_skipped(strip(lines[from])) THEN <<>>
          ELSE <<[line_num |-> from, url |-> strip(lines[from])]>>)
         \o raw_urls(lines, from + 1)

\* The second loop of load_urls: the URLs that are valid, in order.
RECURSIVE valid_urls(_)
valid_urls(raw) ==
    IF raw = <<>> THEN <<>>
    ELSE (IF is_valid_url(Head(raw).url) THEN <<Head(raw).url>> ELSE <<>>)
         \o valid_urls(Tail(raw))

\* The line numbers the second loop prints a warning for.
warned_lines(raw) ==
    {raw[k].line_num : k \in {j \in 1..Len(raw) : ~is_valid_url(raw[j].url)}}

\* load_urls(), given what is at file_path and self.urls before the call:
\* self.urls after it, what it returns or raises, the warnings it prints.
load_urls(file, urls) ==
    IF ~file.exists
    THEN [urls |-> urls, ret |-> "FileNotFoundError", warned |-> {}]
    ELSE IF ~file.readable
    THEN [urls |-> urls, ret |-> "Exception", warned |-> {}]
    ELSE [urls |-> valid_urls(raw_urls(file.lines, 1)), ret |-> "urls",
          warned |-> warned_lines(raw_urls(file.lines, 1))]

\* add_url without the call of _is_valid_url.
add_url_unvalidated(urls, url) ==
    IF \A k \in 1..Len(urls) : urls[k] # url
    THEN [urls |-> Append(urls, url), ret |-> "True", warned |-> {}]
    ELSE [urls |-> urls, ret |-> "False", warned |-> {}]

\* add_url(url), given self.urls before the call.
add_url(urls, url) ==
    IF is_valid_url(url) /\ \A k \in 1..Len(urls) : urls[k] # url
    THEN [urls |-> Append(urls, url), ret |-> "True", warned |-> {}]
    ELSE [urls |-> urls, ret |-> "False", warned |-> {}]

(* ------------------------------------------------------------------ *)
(* State                                                              *)
(* ------------------------------------------------------------------ *)
VARIABLES
    constructed,        \* a WebScraper object exists
    config,             \* self.config of that object
    config_arg,         \* the config argument of the last constructor call
    ctor_error,         \* the exception the constructor raised, or "none"
    last_request_time,  \* self._last_request_time, -1 while the attribute is unset
    clock,              \* time.time()
    call,               \* the last scrape_products call: arguments and outcome
    fx,                 \* one _extract_field_value call: arguments and outcome
    m_pc,               \* where main is: "idle", "loop", "done"
    m_urls,             \* urls, as numbers of Urls
    m_i,                \* the loop's i
    all_products,       \* all_products
    successful_scrapes, \* successful_scrapes
    m_log,              \* what main logged in its loop
    m_return,           \* what main returned: "none", "True", "False"
    r_urls,             \* self.urls of a URLReader
    r_call              \* the last call on the URLReader: argument and outcome

session_vars ==
    <<constructed, config, config_arg, ctor_error, last_request_time, clock, call>>

main_vars == <<m_pc, m_urls, m_i, all_products, successful_scrapes, m_log, m_return>>

reader_vars == <<r_urls, r_call>>

vars == <<session_vars, fx, main_vars, reader_vars>>

\* since is self._last_request_time as the call finds it (-1: not set yet).
NoCall ==
    [op |-> "none", url |-> <<>>, doc |-> 0, now |-> 0, since |-> -1,
     kind |-> "none", error |-> "none", products |-> <<>>, scanned |-> <<>>,
     max_products |-> 0, scraped |-> "none", result |-> NoResult]

NoFx ==
    [doc |-> 0, container |-> 0, steps |-> <<>>, mode |-> 0, has_path |-> FALSE,
     is_dict |-> TRUE, base |-> 0, done |-> FALSE, raised |-> FALSE, value |-> <<>>]

call_record(url, response, now, r) ==
    [op |-> "scrape_products", url |-> url, doc |-> response.doc, now |-> now,
     since |-> last_request_time,
     kind |-> r.kind, error |-> r.error, products |-> r.products,
     scanned |-> r.scanned,
     max_products |-> 0, scraped |-> r.kind, result |-> NoResult]

\* The record of a test_config_on_url call: r is what scrape_products gave
\* (scraped keeps its kind), t is what test_config_on_url did with it.
test_record(url, response, now, max_products, r, t) ==
    [op |-> "test_config_on_url", url |-> url, doc |-> response.doc, now |-> now,
     since |-> last_request_time,
     kind |-> t.kind, error |-> t.error, products |-> r.products,
     scanned |-> r.scanned,
     max_products |-> max_products, scraped |-> r.kind, result |-> t.result]

SessionInit ==
    /\ constructed = FALSE
    /\ config = EmptyDict
    /\ config_arg = EmptyDict
    /\ ctor_error = "none"
    /\ last_request_time = -1
    /\ clock = 0
    /\ call = NoCall

MainInit ==
    /\ m_pc = "idle"
    /\ m_urls = <<>>
    /\ m_i = 0
    /\ all_products = <<>>
    /\ successful_scrapes = 0
    /\ m_log = <<>>
    /\ m_return = "none"

NoReaderCall == [op |-> "none", url |-> <<>>, ret |-> "none", warned |-> {}]

\* URLReader(file_path): self.urls = []
ReaderInit ==
    /\ r_urls = <<>>
    /\ r_call = NoReaderCall

Init == SessionInit /\ MainInit /\ ReaderInit /\ fx = NoFx

\* WebScraper(cfg)
Construct(cfg) ==
    /\ ~constructed
    /\ ctor_error = "none"
    /\ config_arg' = cfg
    /\ constructed' = ~validate_config(cfg).raised
    /\ config' = validate_config(cfg).config
    /\ ctor_error' = IF validate_config(cfg).raised THEN "ValueError" ELSE "none"
    /\ UNCHANGED <<last_request_time, clock, call, fx, main_vars, reader_vars>>

\* ScrapeProducts with a metadata loop that reads the name through
\* self.config.setdefault("name", "default_config").
ScrapeProducts_setdefault(url, response, now) ==
    /\ constructed
    /\ call' = call_record(url, response, now,
                           scrape_products(config, url, response, now))
    /\ last_request_time' = IF response.status = "ok" THEN now ELSE last_request_time
    /\ clock' = now
    /\ config' = IF "name" \in DOMAIN config \/ call'.products = <<>> THEN config
                 ELSE config @@ ("name" :> DefaultConfigName)
    /\ UNCHANGED <<constructed, config_arg, ctor_error, fx, main_vars, reader_vars>>

\* scraper.scrape_products(url): the request completes (or fails) at time
\* now; self._last_request_time is set only after a successful request.
ScrapeProducts(url, response, now) ==
    /\ constructed
    /\ call' = call_record(url, response, now,
                           scrape_products(config, url, response, now))
    /\ last_request_time' = IF response.status = "ok" THEN now ELSE last_request_time
    /\ clock' = now
    /\ UNCHANGED <<constructed, config, config_arg, ctor_error, fx, main_vars, reader_vars>>

\* scraper.test_config_on_url(url, max_products): the scrape_products call
\* inside it has the effects of ScrapeProducts.
TestConfigOnUrl(url, response, now, max_products) ==
    /\ constructed
    /\ call' = test_record(url, response, now, max_products,
                           scrape_products(config, url, response, now),
                           test_config_on_url(
                               scrape_products(config, url, response, now),
                               max_products))
    /\ last_request_time' = IF response.status = "ok" THEN now ELSE last_request_time
    /\ clock' = now
    /\ UNCHANGED <<constructed, config, config_arg, ctor_error, fx, main_vars, reader_vars>>

Next ==
    \/ \E c \in ConfigIds : Construct(Configs[c])
    \/ \E u \in UrlIds, response \in Responses, now \in clock..MaxClock :
           ScrapeProducts(Urls[u], response, now)
    \/ \E u \in UrlIds, response \in TestResponses, now \in clock..MaxClock,
          max_products \in MaxProductsValues :
           TestConfigOnUrl(Urls[u], response, now, max_products)

Spec == Init /\ [][Next]_vars

(* ------------------------------------------------------------------ *)
(* _extract_field_value on its own                                    *)
(* ------------------------------------------------------------------ *)
\* An input: a start element, a path, an extract mode, a base URL.
field_input(se, steps, mode, has_path, isd, base) ==
    [doc |-> se[1], container |-> se[2], steps |-> steps, mode |-> mode,
     has_path |-> has_path, is_dict |-> isd, base |-> base, done |-> FALSE,
     raised |-> FALSE, value |-> <<>>]

\* The "path" key may be left out only when there is no step; a field_config
\* that is not an object has neither key.
InitField ==
    /\ SessionInit
    /\ MainInit
    /\ ReaderInit
    /\ \E se \in StartElements, steps \in StepSeqs, mode \in ModeIds,
          has_path \in BOOLEAN, isd \in BOOLEAN, base \in UrlIds :
           /\ has_path \/ steps = <<>>
           /\ isd \/ (steps = <<>> /\ mode = 0 /\ ~has_path)
           /\ fx = field_input(se, steps, mode, has_path, isd, base)

\* The field_config argument of the call in fx.
fx_field_config(x) ==
    IF x.is_dict THEN field_config_of(x.steps, x.mode, x.has_path) ELSE NotADict

fx_outcome(x, r) == [x EXCEPT !.done = TRUE, !.raised = r.raised, !.value = r.value]

\* self._extract_field_value(container, field_config, base_url)
ExtractField ==
    /\ ~fx.done
    /\ fx' = fx_outcome(fx, extract_field_value(Docs[fx.doc], fx.container,
                                                fx_field_config(fx), Urls[fx.base]))
    /\ UNCHANGED <<session_vars, main_vars, reader_vars>>

NextField == ExtractField

SpecField == InitField /\ [][NextField]_vars

(* ------------------------------------------------------------------ *)
(* main()                                                             *)
(* ------------------------------------------------------------------ *)

\* main() up to the loop: the files are read, the scraper is constructed.
MainStart(env) ==
    /\ m_pc = "idle"
    /\ m_urls' = IF ~env.config_file \/ ~env.urls_file \/ settings_missing(env)
                 THEN <<>> ELSE env.urls
    /\ m_pc' = IF main_stops_early(env) THEN "done" ELSE "loop"
    /\ m_return' = IF main_stops_early(env) THEN "False" ELSE "none"
    /\ m_i' = 1
    /\ IF main_stops_early(env)
       THEN UNCHANGED <<constructed, config, config_arg>>
       ELSE /\ constructed' = TRUE
            /\ config' = MainConfigs[env.scraper]
            /\ config_arg' = MainConfigs[env.scraper]
    /\ UNCHANGED <<ctor_error, last_request_time, clock, call, fx,
                   all_products, successful_scrapes, m_log, reader_vars>>

\* The log of one pass of the loop: the line before the call, the line after.
log_url(log, i, url, r) ==
    log \o <<[level |-> "info", event |-> "processing", i |-> i, url |-> url],
             outcome_entry(i, r)>>

\* One pass of the loop, given the outcome r of scraper.scrape_products(url).
MainPass(r) ==
    /\ all_products' = extend_products(all_products, r)
    /\ successful_scrapes' = count_scrape(successful_scrapes, r)
    /\ m_log' = log_url(m_log, m_i, m_urls[m_i], r)
    /\ m_pc' = after_url(r)
    /\ m_i' = m_i + 1

\* for i, url in enumerate(urls, 1): one pass.
MainUrl(response, now) ==
    /\ m_pc = "loop"
    /\ m_i <= Len(m_urls)
    /\ MainPass(scrape_products(config, Urls[m_urls[m_i]], response, now))
    /\ last_request_time' = IF response.status = "ok" THEN now ELSE last_request_time
    /\ clock' = now
    /\ UNCHANGED <<constructed, config, config_arg, ctor_error, call, fx,
                   m_urls, m_return, reader_vars>>

\* After the loop: the results are saved (saved is whether save_to_json
\* succeeds) and main returns.
MainFinish(saved) ==
    /\ m_pc = "loop"
    /\ m_i > Len(m_urls)
    /\ m_pc' = "done"
    /\ m_return' = IF all_products # <<>> /\ saved THEN "True" ELSE "False"
    /\ UNCHANGED <<session_vars, fx, m_urls, m_i, all_products,
                   successful_scrapes, m_log, reader_vars>>

NextMain ==
    \/ \E env \in Environments : MainStart(env)
    \/ \E response \in MainResponses, now \in MainTimes(clock) :
           MainUrl(response, now)
    \/ \E saved \in BOOLEAN : MainFinish(saved)

SpecMain == Init /\ [][NextMain]_vars

(* ------------------------------------------------------------------ *)
(* URLReader on its own                                               *)
(* ------------------------------------------------------------------ *)
reader_call(op, url, r) == [op |-> op, url |-> url, ret |-> r.ret, warned |-> r.warned]

\* The reader after a call of method op that gave r.
ReaderAfter(op, url, r) ==
    /\ r_urls' = r.urls
    /\ r_call' = reader_call(op, url, r)
    /\ UNCHANGED <<session_vars, fx, main_vars>>

\* reader.load_urls()
LoadUrls(file) ==
    ReaderAfter("load_urls", <<>>,
        load_urls([file EXCEPT !.lines =
                      [k \in 1..Len(file.lines) |-> UrlLines[file.lines[k]]]],
                  r_urls))

\* reader.add_url(url)
AddUrl(url) == ReaderAfter("add_url", url, add_url(r_urls, url))

NextReader ==
    \/ \E file \in UrlFiles : LoadUrls(file)
    \/ \E l \in LineIds : AddUrl(UrlLines[l])

SpecReader == Init /\ [][NextReader]_vars

(* ------------------------------------------------------------------ *)
(* Properties of _extract_products and scrape_products (Spec)         *)
(* ------------------------------------------------------------------ *)

\* The last call fetched a page and extraction went through the containers.
Scanned == call.op = "scrape_products" /\ call.kind = "returned"

AllNA(product) == \A f \in DOMAIN product : product[f] = NA

\* The place in the returned list of the record of container number i, when
\* records are appended in container order and all-"N/A" ones are left out.
PlaceOf(i) == Cardinality({j \in 1..i : ~AllNA(call.scanned[j].product)})

\* The containers of the page of the last call, found without find_all.
ContainersOfCall ==
    {j \in Nodes(Docs[call.doc]) :
        /\ Docs[call.doc].tag[j] = "div"
        /\ class_matches(Docs[call.doc], j, config["container_class"])}

\* Two records agree on every key that is not a provenance key.
SameFields(record, product) ==
    /\ DOMAIN record \ ProvenanceKeys = DOMAIN product \ ProvenanceKeys
    /\ \A f \in DOMAIN product \ ProvenanceKeys : record[f] = product[f]

\* C1: the record of a container is left out of the returned list if and only
\* if every configured field's value is "N/A": every container of the page is
\* visited, the returned list holds, in container order, exactly the records
\* with at least one value other than "N/A" (the empty string included).
C1_OmittedIffAllNA ==
    Scanned /\ call.doc # 0 =>
        /\ {call.scanned[i].container : i \in 1..Len(call.scanned)} = ContainersOfCall
        /\ Len(call.scanned) = Cardinality(ContainersOfCall)
        /\ Len(call.products) = PlaceOf(Len(call.scanned))
        /\ \A i \in 1..Len(call.scanned) :
               ~AllNA(call.scanned[i].product) =>
                   SameFields(call.products[PlaceOf(i)], call.scanned[i].product)

\* A page where one container is left out because all its values are "N/A",
\* one is kept with a failed field next to a good one, and one is kept for a
\* value that is the empty string.
C1_Witness ==
    /\ Scanned
    /\ \E i \in 1..Len(call.scanned) :
           /\ DOMAIN call.scanned[i].product # {}
           /\ AllNA(call.scanned[i].product)
    /\ \E i \in 1..Len(call.scanned) :
           \E f, g \in DOMAIN call.scanned[i].product :
               /\ call.scanned[i].product[f] = NA
               /\ call.scanned[i].product[g] \notin {NA, <<>>}
    /\ \E i \in 1..Len(call.scanned) :
           /\ ~AllNA(call.scanned[i].product)
           /\ \A f \in DOMAIN call.scanned[i].product :
                  call.scanned[i].product[f] \in {NA, <<>>}

\* What _extract_field_value gives for field f of container c in the last call.
FieldOutcome(c, f) ==
    extract_field_value(Docs[call.doc], c, config["fields"][f], call.url)

\* C2: an exception in one field of one container sets only that field to
\* "N/A" (with a warning); the other fields of the container and the later
\* containers are still extracted, and the exception never leaves
\* _extract_products.
C2_FieldFailureIsolated ==
    /\ call.op = "scrape_products" /\ call.doc # 0
       /\ "fields" \in DOMAIN config /\ is_dict(config["fields"])
           => call.kind = "returned"
    /\ Scanned /\ call.doc # 0 =>
           /\ Len(call.scanned) = Cardinality(ContainersOfCall)
           /\ \A i \in 1..Len(call.scanned) :
                  /\ call.scanned[i].container \in ContainersOfCall
                  /\ DOMAIN call.scanned[i].product = DOMAIN config["fields"]
                  /\ \A f \in DOMAIN config["fields"] :
                         IF FieldOutcome(call.scanned[i].container, f).raised
                         THEN /\ call.scanned[i].product[f] = NA
                              /\ f \in call.scanned[i].warned
                         ELSE /\ call.scanned[i].product[f] =
                                     FieldOutcome(call.scanned[i].container, f).value
                              /\ f \notin call.scanned[i].warned

\* A field raised in the first container, a sibling field of that container
\* has a value, and a later container has a value too.
C2_Witness ==
    /\ Scanned
    /\ Len(call.scanned) >= 2
    /\ call.scanned[1].warned # {}
    /\ \E g \in DOMAIN call.scanned[1].product : call.scanned[1].product[g] # NA
    /\ \E g \in DOMAIN call.scanned[2].product : call.scanned[2].product[g] # NA
    /\ Len(call.products) >= 2

\* C3 as claimed: every returned record has exactly the configured field
\* names plus the three provenance keys, and every configured field that
\* failed is present with the value "N/A", whatever the field is named.
C3_Original ==
    Scanned =>
        \A i \in 1..Len(call.scanned) :
            ~AllNA(call.scanned[i].product) =>
                /\ DOMAIN call.products[PlaceOf(i)] =
                       DOMAIN config["fields"] \cup ProvenanceKeys
                /\ \A f \in DOMAIN config["fields"] :
                       call.scanned[i].product[f] = NA =>
                           call.products[PlaceOf(i)][f] = NA

\* C3 (amended): every returned record has exactly the configured field names
\* and the three provenance keys as its keys; a configured field whose name is
\* not a provenance key carries its extracted value ("N/A" when it failed),
\* and each provenance key carries the provenance value, also when a
\* configured field has that name.
C3_KeySet ==
    Scanned =>
        /\ Len(call.products) = PlaceOf(Len(call.scanned))
        /\ \A i \in 1..Len(call.scanned) :
               ~AllNA(call.scanned[i].product) =>
                   /\ DOMAIN call.products[PlaceOf(i)] =
                          DOMAIN config["fields"] \cup ProvenanceKeys
                   /\ \A f \in DOMAIN config["fields"] \ ProvenanceKeys :
                          call.products[PlaceOf(i)][f] = call.scanned[i].product[f]
                   /\ call.products[PlaceOf(i)]["_source_url"] = call.url
                   /\ call.products[PlaceOf(i)]["_scraped_at"] = strftime(call.now)

\* A returned record of a configuration with a field named _source_url, and
\* one with a failed field that is present as "N/A".
C3_Witness ==
    /\ Scanned
    /\ "_source_url" \in DOMAIN config["fields"]
    /\ \E i \in 1..Len(call.products) :
           \E f \in DOMAIN config["fields"] \ ProvenanceKeys :
               call.products[i][f] # NA
    /\ \E i \in 1..Len(call.scanned) :
           /\ ~AllNA(call.scanned[i].product)
           /\ call.scanned[i].product["_source_url"] = NA

(* ------------------------------------------------------------------ *)
(* Properties of the constructor (Spec)                               *)
(* ------------------------------------------------------------------ *)
ConstructorCalled == constructed \/ ctor_error # "none"

LacksRequiredKey(cfg) ==
    "container_class" \notin DOMAIN cfg \/ "fields" \notin DOMAIN cfg

\* C4: constructing a WebScraper with a configuration that lacks
\* container_class or fields fails with ValueError: no object exists and no
\* fetch or extraction is made with that configuration.
C4_MissingKeyRejected ==
    ConstructorCalled /\ LacksRequiredKey(config_arg) =>
        /\ ctor_error = "ValueError"
        /\ ~constructed
        /\ call = NoCall
        /\ last_request_time = -1

\* The constructor was called without "fields" (container_class is there).
C4_Witness ==
    /\ ctor_error = "ValueError"
    /\ "container_class" \in DOMAIN config_arg
    /\ "fields" \notin DOMAIN config_arg

\* C5 as claimed: a constructed WebScraper holds a configuration whose
\* container_class and fields are present and non-empty.
C5_Original ==
    constructed =>
        /\ ~LacksRequiredKey(config)
        /\ config["container_class"] # ""
        /\ DOMAIN config["fields"] # {}

\* C5 (amended): a constructed WebScraper holds the configuration it was
\* given, with the keys container_class and fields both present; the values
\* are not looked at, so a configuration with both keys is accepted also when
\* container_class is the empty string or fields is empty.
C5_KeysPresent ==
    /\ constructed => ~LacksRequiredKey(config) /\ config = config_arg
    /\ ConstructorCalled /\ ~LacksRequiredKey(config_arg) =>
           constructed /\ ctor_error = "none"

\* A scraper constructed with an empty container_class scraped a page.
C5_Witness ==
    /\ constructed
    /\ config["container_class"] = ""
    /\ call.op = "scrape_products"

(* ------------------------------------------------------------------ *)
(* Properties of main's loop (SpecMain)                               *)
(* ------------------------------------------------------------------ *)

\* The lines main logged before its calls of scrape_products.
Processing == SelectSeq(m_log, LAMBDA entry : entry.event = "processing")

\* The lines main logged after its calls of scrape_products.
Outcomes == SelectSeq(m_log, LAMBDA entry : entry.event = "outcome")

IsPrefix(short, long) ==
    Len(short) <= Len(long) /\ SubSeq(long, 1, Len(short)) = short

\* The loop has attempted the first m_i - 1 URLs, each once, in list order;
\* main is done only when that is the whole list.
C6_AttemptedInOrder ==
    constructed =>
        /\ Len(Processing) = m_i - 1
        /\ Len(Outcomes) = m_i - 1
        /\ \A k \in 1..(m_i - 1) :
               /\ Processing[k].i = k
               /\ Processing[k].url = m_urls[k]
               /\ m_log[2 * k - 1] = Processing[k]
               /\ m_log[2 * k] = Outcomes[k]
        /\ m_pc = "done" => m_i = Len(m_urls) + 1

\* C6: main's loop attempts every URL of the loaded list exactly once and in
\* list order; an exception of scrape_products for one URL is logged and the
\* loop goes on with the next URL, and the records aggregated so far are kept.
C6_EveryUrlAttempted ==
    /\ []C6_AttemptedInOrder
    /\ [][IsPrefix(all_products, all_products')]_vars
    /\ [][m_pc = "loop" /\ m_i <= Len(m_urls) => m_pc' = "loop" /\ m_i' = m_i + 1]_vars

\* Three URLs: the first gives records, the second fails, the third gives
\* records again, and main is done with the records of both.
C6_Witness ==
    /\ m_pc = "done"
    /\ Len(m_urls) = 3
    /\ Len(Outcomes) = 3
    /\ Outcomes[1].level = "info"
    /\ Outcomes[2].level = "error"
    /\ Outcomes[3].level = "info"
    /\ Len(all_products) = 2

(* ------------------------------------------------------------------ *)
(* Properties of _extract_field_value (SpecField)                     *)
(* ------------------------------------------------------------------ *)

\* The element the path of the call in fx ends at.
FxTerminal ==
    walk_path(Docs[fx.doc], [raised |-> FALSE, element |-> fx.container],
              [i \in 1..Len(fx.steps) |-> PathSteps[fx.steps[i]]], 1)

\* The call in fx returned, and its path ended at an element.
FxFound == fx.done /\ fx.is_dict /\ ~FxTerminal.raised /\ FxTerminal.element # None

FxMode == IF fx.mode = 0 THEN "text" ELSE ExtractModes[fx.mode]

FxAttr(name) == Docs[fx.doc].attrs[FxTerminal.element][name]

\* A reference with a scheme and a network location.
IsAbsolute(url) ==
    /\ find_char(url, ":") > 1
    /\ Len(url) >= find_char(url, ":") + 2
    /\ url[find_char(url, ":") + 1] = "/"
    /\ url[find_char(url, ":") + 2] = "/"
    /\ \A k \in 1..(find_char(url, ":") - 1) : url[k] # "/"

\* A URL with its scheme in lower case.
LowerScheme(url) ==
    [k \in 1..Len(url) |->
        IF k < find_char(url, ":") THEN lower_char(url[k]) ELSE url[k]]

C8_AttributeMode ==
    FxFound /\ FxMode \notin {"text", "href"} =>
        /\ ~fx.raised
        /\ IF FxMode \in AttrNames /\ FxAttr(FxMode).present
              /\ FxAttr(FxMode).value # <<>>
           THEN fx.value = FxAttr(FxMode).value
           ELSE fx.value = NA

\* The attribute data-id of a found element was returned.
C8_Witness ==
    /\ FxFound
    /\ FxMode = "data-id"
    /\ Len(fx.steps) >= 1
    /\ FxAttr("data-id").present
    /\ fx.value = FxAttr("data-id").value
    /\ fx.value # <<>>

(* ------------------------------------------------------------------ *)
(* Properties of scrape_products' results (Spec)                      *)
(* ------------------------------------------------------------------ *)

\* C9: every record scrape_products(url) returns carries _source_url = url and
\* _config_used = the configuration's name when it has the key "name", and
\* "default_config" otherwise.
C9_Provenance ==
    Scanned =>
        \A i \in 1..Len(call.products) :
            /\ ProvenanceKeys \subseteq DOMAIN call.products[i]
            /\ call.products[i]["_source_url"] = call.url
            /\ call.products[i]["_config_used"] =
                   IF "name" \in DOMAIN config THEN config["name"] ELSE DefaultConfigName

\* Records were returned under a configuration that has a name.
C9_Witness ==
    /\ Scanned
    /\ "name" \in DOMAIN config
    /\ call.products # <<>>
    /\ call.url = UrlOther

\* C10: for a page without a div of the configured container class,
\* _extract_products returns an empty list without raising, and
\* scrape_products returns that empty list.
C10_NoContainerEmptyList ==
    call.op = "scrape_products" /\ call.doc # 0 /\ ContainersOfCall = {} =>
        /\ call.kind = "returned"
        /\ call.error = "none"
        /\ call.products = <<>>
        /\ call.scanned = <<>>

\* A page with div elements, none of the container class, was scraped.
C10_Witness ==
    /\ call.op = "scrape_products"
    /\ call.doc # 0
    /\ ContainersOfCall = {}
    /\ \E j \in Nodes(Docs[call.doc]) : Docs[call.doc].tag[j] = "div"
    /\ call.kind = "returned"

(* ------------------------------------------------------------------ *)
(* Properties of a sequence of scrape_products calls (Spec)           *)
(* ------------------------------------------------------------------ *)

\* The records _extract_products gives for the page and URL of the last call
\* under the configuration the constructor was given.
FreshProducts ==
    extract_products(Docs[call.doc], config_arg, call.url).products

\* C11: over any sequence of scrape_products calls the scraper holds the
\* configuration it was constructed with, unmodified; the field values of the
\* records a call returns are those of the page, that configuration and the
\* URL of the call, whatever calls came before; a call changes no attribute
\* of the scraper but the time of the last request.
C11_ConfigReadOnly ==
    /\ [](constructed => config = config_arg)
    /\ [](Scanned /\ call.doc # 0 =>
             /\ Len(call.products) = Len(FreshProducts)
             /\ \A i \in 1..Len(call.products) :
                    SameFields(call.products[i], FreshProducts[i]))
    /\ [][call' # call =>
             /\ constructed' = constructed
             /\ config' = config
             /\ config_arg' = config_arg
             /\ ctor_error' = ctor_error]_vars

\* A call that returned records after an earlier call had set the time of the
\* last request.
C11_Witness ==
    /\ Scanned
    /\ call.products # <<>>
    /\ call.since >= 0
    /\ call.since < call.now
    /\ config = config_arg

(* ------------------------------------------------------------------ *)
(* Properties of test_config_on_url (Spec)                            *)
(* ------------------------------------------------------------------ *)
Tested == call.op = "test_config_on_url"

\* C12 as claimed: test_config_on_url always returns a dictionary and never
\* raises: success=True with the number of records and at most the first
\* max_products of them when scrape_products succeeds, success=False with the
\* error message when scrape_products raises.
C12_Original ==
    Tested =>
        /\ call.kind = "returned"
        /\ call.scraped = "returned" =>
               /\ call.result.success
               /\ call.result.total_products = Len(call.products)
               /\ call.result.sample_products = slice_to(call.products, call.max_products)
        /\ call.scraped = "raised" =>
               /\ ~call.result.success
               /\ call.result.error # "none"

\* What the code does: every test_config_on_url call of a scraper made by
\* the constructor ends in AttributeError, whatever scrape_products gave.
C12_AlwaysRaises ==
    Tested => call.kind = "raised" /\ call.error = "AttributeError"

(* ------------------------------------------------------------------ *)
(* Properties of the path of _extract_field_value (SpecField)         *)
(* ------------------------------------------------------------------ *)

\* The path of the call in fx.
FxSteps == [i \in 1..Len(fx.steps) |-> PathSteps[fx.steps[i]]]

\* What the loop holds after the first k steps of the path.
FxAfter(k) ==
    walk_path(Docs[fx.doc], [raised |-> FALSE, element |-> fx.container],
              SubSeq(FxSteps, 1, k), 1)

\* Step k of the path is reached with an element to start from.
FxReaches(k) ==
    /\ fx.done /\ fx.is_dict
    /\ k \in 1..Len(fx.steps)
    /\ ~FxAfter(k - 1).raised
    /\ FxAfter(k - 1).element # None

StepType(step) ==
    IF is_dict(step) /\ "type" \in DOMAIN step THEN step["type"] ELSE "none"

StepIndex(step) == IF "index" \in DOMAIN step THEN step["index"] ELSE 0

\* The descendants of e that a step's tag and class (when it names one) select.
MatchSet(e, step) ==
    {j \in Nodes(Docs[fx.doc]) :
        /\ is_descendant(Docs[fx.doc], j, e)
        /\ "tag" \in DOMAIN step => Docs[fx.doc].tag[j] = step["tag"]
        /\ "class" \in DOMAIN step /\ step["class"] # "" =>
               step["class"] \in Docs[fx.doc].classes[j]}

\* The member of S with exactly i members before it in document order.
NthOf(S, i) == CHOOSE j \in S : Cardinality({x \in S : x < j}) = i

\* What C13 says of a find_all step with index i whose match set is S.
FindAllSelects(k, S, i) ==
    /\ ~FxAfter(k).raised
    /\ IF Cardinality(S) > i
       THEN FxAfter(k).element = NthOf(S, i)
       ELSE /\ FxAfter(k).element = None
            /\ fx.value = NA
            /\ ~fx.raised

\* C13: a find_all step with a non-negative index i (0 when the step has no
\* index), applied to an element with n matching descendants, makes the i-th
\* match in document order the current element when n > i, and finds nothing
\* when n <= i: the field is then "N/A" and nothing is raised.
C13_FindAllIndex ==
    \A k \in 1..Len(fx.steps) :
        FxReaches(k) /\ StepType(FxSteps[k]) = "find_all"
          /\ StepIndex(FxSteps[k]) >= 0 =>
            FindAllSelects(k, MatchSet(FxAfter(k - 1).element, FxSteps[k]),
                           StepIndex(FxSteps[k]))

\* Index 2 on a container with exactly two span descendants: "N/A".
C13_Witness ==
    /\ FxReaches(1)
    /\ StepType(FxSteps[1]) = "find_all"
    /\ StepIndex(FxSteps[1]) = 2
    /\ Cardinality(MatchSet(fx.container, FxSteps[1])) = 2
    /\ fx.value = NA
    /\ ~fx.raised

NegativeIndexCase(k, S, i) ==
    IF S = {} THEN ~FxAfter(k).raised /\ FxAfter(k).element = None
    ELSE IF Cardinality(S) >= -i
    THEN ~FxAfter(k).raised /\ FxAfter(k).element = NthOf(S, Cardinality(S) + i)
    ELSE FxAfter(k).raised /\ fx.raised

\* C14 as claimed: a find_all step with a negative index finds nothing,
\* without raising, however many descendants match: the field is "N/A".
C14_Original ==
    \A k \in 1..Len(fx.steps) :
        FxReaches(k) /\ StepType(FxSteps[k]) = "find_all"
          /\ StepIndex(FxSteps[k]) < 0 =>
            /\ ~FxAfter(k).raised
            /\ FxAfter(k).element = None
            /\ fx.value = NA
            /\ ~fx.raised

\* What the code does with a negative index i on n matches: nothing found when
\* n = 0, the match number n + i (counted from 0) when n >= -i, and an
\* IndexError that leaves _extract_field_value when 0 < n < -i.
C14_NegativeIndex ==
    \A k \in 1..Len(fx.steps) :
        FxReaches(k) /\ StepType(FxSteps[k]) = "find_all"
          /\ StepIndex(FxSteps[k]) < 0 =>
            NegativeIndexCase(k, MatchSet(FxAfter(k - 1).element, FxSteps[k]),
                              StepIndex(FxSteps[k]))

\* The first match of a find step whose match set is S, or None.
FirstOf(S) == IF S = {} THEN None ELSE NthOf(S, 0)

\* C15: the steps of a path are applied in order, each to the element the
\* step before it gave (a find step gives the first match among that
\* element's descendants, and no other match is tried later); once a step
\* finds nothing no later step is evaluated, not even a malformed one, and the
\* field is "N/A" under every extract mode, without an error.
C15_InOrderShortCircuit ==
    \A k \in 1..Len(fx.steps) :
        /\ FxReaches(k) /\ StepType(FxSteps[k]) = "find" =>
               /\ ~FxAfter(k).raised
               /\ FxAfter(k).element =
                      FirstOf(MatchSet(FxAfter(k - 1).element, FxSteps[k]))
        /\ FxReaches(k) /\ ~FxAfter(k).raised /\ FxAfter(k).element = None =>
               /\ FxTerminal = FxAfter(k)
               /\ fx.value = NA
               /\ ~fx.raised

\* The first step found nothing, the second step is not an object, and the
\* extract mode is href: the field is "N/A" and nothing was raised.
C15_Witness ==
    /\ FxReaches(1)
    /\ Len(fx.steps) = 2
    /\ FxAfter(1).element = None
    /\ ~FxAfter(1).raised
    /\ ~is_dict(FxSteps[2])
    /\ FxMode = "href"
    /\ fx.value = NA
    /\ ~fx.raised

\* An attribute of the container of the call in fx.
ContainerAttr(name) ==
    IF name \in AttrNames THEN Docs[fx.doc].attrs[fx.container][name] ELSE Absent

\* The value a mode takes from an attribute: "N/A" when absent or empty.
AttrValueOrNA(a) == IF a.present /\ a.value # <<>> THEN a.value ELSE NA

\* C16: for a field whose path is empty or absent the terminal element is the
\* container itself: the value is the container's own text in text mode (the
\* default), its href resolved against the base URL in href mode, and its
\* attribute of that name in any other mode.
C16_EmptyPathIsContainer ==
    fx.done /\ fx.is_dict /\ fx.steps = <<>> =>
        /\ ~fx.raised
        /\ FxTerminal.element = fx.container
        /\ FxMode = "text" => fx.value = get_text(Docs[fx.doc], fx.container)
        /\ FxMode = "href" =>
               fx.value = IF AttrValueOrNA(ContainerAttr("href")) = NA THEN NA
                          ELSE urljoin(Urls[fx.base], ContainerAttr("href").value)
        /\ FxMode \notin {"text", "href"} =>
               fx.value = AttrValueOrNA(ContainerAttr(FxMode))

\* A field without the "path" key took the data-id attribute of its container.
C16_Witness ==
    /\ fx.done /\ fx.is_dict
    /\ ~fx.has_path
    /\ fx.steps = <<>>
    /\ FxMode = "data-id"
    /\ ContainerAttr("data-id").present
    /\ fx.value = ContainerAttr("data-id").value
    /\ fx.value # <<>>

\* A sequence without its k-th member.
RemoveAt(seq, k) == SubSeq(seq, 1, k - 1) \o SubSeq(seq, k + 1, Len(seq))

\* The outcome of the call in fx had its path been without step k.
FxWithout(k) ==
    extract_field_value(Docs[fx.doc], fx.container,
        fx_field_config([fx EXCEPT !.steps = RemoveAt(fx.steps, k)]), Urls[fx.base])

\* C18: a step that is an object whose type is neither find nor find_all (or
\* that has no type) is a no-op: the current element stays, nothing is raised,
\* the next steps go on from that element, and the field's outcome is what it
\* would be without the step.
C18_UnknownStepIsNoOp ==
    \A k \in 1..Len(fx.steps) :
        FxReaches(k) /\ is_dict(FxSteps[k])
          /\ StepType(FxSteps[k]) \notin {"find", "find_all"} =>
            /\ ~FxAfter(k).raised
            /\ FxAfter(k).element = FxAfter(k - 1).element
            /\ fx.raised = FxWithout(k).raised
            /\ fx.value = FxWithout(k).value

\* A step of type select followed by a find step that found an element with
\* text.
C18_Witness ==
    /\ FxReaches(2)
    /\ StepType(FxSteps[1]) = "select"
    /\ StepType(FxSteps[2]) = "find"
    /\ FxAfter(2).element \notin {None, fx.container}
    /\ ~fx.raised
    /\ fx.value \notin {NA, <<>>}

(* ------------------------------------------------------------------ *)
(* Properties of URLReader (SpecReader)                               *)
(* ------------------------------------------------------------------ *)

\* u, after leading spaces, starts with a scheme (a letter, then letters,
\* digits, "+", "-", "."), a colon, "//", and a network location that is
\* not empty: a is where the scheme starts and c is where its colon is.
SchemeAndNetlocAt(u, a, c) ==
    /\ a < c
    /\ \A k \in 1..(a - 1) : u[k] = " "
    /\ u[a] \in LowerLetters \cup UpperLetters
    /\ \A k \in a..(c - 1) : u[k] \in scheme_chars
    /\ u[c] = ":"
    /\ Len(u) >= c + 3
    /\ u[c + 1] = "/"
    /\ u[c + 2] = "/"
    /\ u[c + 3] \notin {"/", "?", "#"}

HasSchemeAndNetloc(u) ==
    \E a \in 1..Len(u), c \in 1..Len(u) : SchemeAndNetlocAt(u, a, c)

InList(urls, url) == \E k \in 1..Len(urls) : urls[k] = url

\* C17: after any sequence of load_urls and add_url calls every entry of
\* self.urls has a scheme and a network location that are not empty; add_url
\* appends its argument and returns True when the argument is valid and not
\* in the list yet, and otherwise returns False and leaves the list as it is.
C17_UrlsValid ==
    /\ [](\A k \in 1..Len(r_urls) : HasSchemeAndNetloc(r_urls[k]))
    /\ [][r_call'.op = "add_url" =>
             IF HasSchemeAndNetloc(r_call'.url) /\ ~InList(r_urls, r_call'.url)
             THEN r_urls' = Append(r_urls, r_call'.url) /\ r_call'.ret = "True"
             ELSE r_urls' = r_urls /\ r_call'.ret = "False"]_vars

\* A file with the same URL on two lines was loaded, and add_url then added
\* another URL: three entries, the first two equal.
C17_Witness ==
    /\ r_call.op = "add_url"
    /\ r_call.ret = "True"
    /\ Len(r_urls) = 3
    /\ r_urls[1] = r_urls[2]
    /\ r_urls[3] = r_call.url

====
